---- MODULE Spec2Model ----
(***************************************************************************)
(* Model of the database layer of the tattoo bot (src/database): the       *)
(* tables of models.py as sets of rows, the write operations of            *)
(* client_queries.py, master_queries.py, common_queries.py and             *)
(* admin_queries.py as actions, and the ranking queries of                 *)
(* master_queries.py (get_master_ranking_by_like_*, get_master_liked_client*)
(* and get_master_new_registered) as operators over the rows.              *)
(***************************************************************************)
EXTENDS Integers, Sequences, FiniteSets, TLC

(***************************************************************************)
(* Configuration values (config_data.config) and bounds of the model.      *)
(***************************************************************************)
NUMBER_ALL_STYLES == 0
MAX_NUMBER_STYLES == 2
TATTOO_TYPE_COLOR == "Color"
TATTOO_TYPE_MONOCHROME == "Monochrome"
TATTOO_TYPE_BOTH == "Both"
WEEK_DAYS == 7

NumMasters == 3
NumEdited == 1
MaxLenIndex == 4
MaxLenReturn == 3
SeedNow == 10

TattooTypes == {TATTOO_TYPE_COLOR, TATTOO_TYPE_MONOCHROME, TATTOO_TYPE_BOTH}
Cities == {"A", "B"}
MasterIds == 1..NumMasters
EditedMasters == 1..NumEdited
ClientId == NumMasters + 1
OtherClientId == NumMasters + 2
UnknownId == NumMasters + 3
Procs == {1, 2}

(* The style catalog (table styles): ids NUMBER_ALL_STYLES..MAX_NUMBER_STYLES. *)
Styles == {[style_id |-> i, style_name |-> <<"style", i>>] : i \in NUMBER_ALL_STYLES..MAX_NUMBER_STYLES}

(* Lists of style ids handed to create_client_styles / create_master_styles. *)
StyleInputs ==
    { <<>>, <<NUMBER_ALL_STYLES>>, <<1>>, <<2>>, <<1, 2>>, <<1, 1>>,
      <<1, NUMBER_ALL_STYLES>>, <<MAX_NUMBER_STYLES + 1>> }

VARIABLES
    master,         \* table master: rows [master_id, city, tattoo_type, is_blocked, date_of_reg]
    client,         \* table client: rows [client_id, city, tattoo_type]
    master_styles,  \* table master_styles: rows [master_id, style_id]
    client_styles,  \* table client_styles: rows [client_id, style_id]
    likes,          \* table likes: rows [client_id, master_id, like_id]
    master_photos,  \* table master_photos: rows [master_id, photo_path]
    now,            \* datetime.datetime.now(), in days
    call,           \* the ranking call that has run and not yet been handed back
    proc,           \* the style-replacement coroutines, each between its two transactions
    scroll,         \* the pages a caller has collected, len_index = k, 2k, ...
    liker,          \* the create_like coroutines: before the commit, or holding the returned value
    like_log        \* the pairs (client_id, master_id) for which a create_like call has completed

store == <<master, client, master_styles, client_styles, likes, master_photos, now>>
vars ==
    <<master, client, master_styles, client_styles, likes, master_photos, now,
      call, proc, scroll, liker, like_log>>

(***************************************************************************)
(* Sequences                                                               *)
(***************************************************************************)
RECURSIVE Perms(_)
Perms(S) ==
    IF S = {} THEN {<<>>}
    ELSE UNION {{<<x>> \o p : p \in Perms(S \ {x})} : x \in S}

Range(s) == {s[i] : i \in 1..Len(s)}

Ids(rows) == [i \in 1..Len(rows) |-> rows[i].master_id]

Min(a, b) == IF a < b THEN a ELSE b

(***************************************************************************)
(* db_utils.py                                                             *)
(***************************************************************************)
validate_style_ids(style_ids) ==
    LET unique_style_ids == Range(style_ids)
    IN  IF NUMBER_ALL_STYLES \in unique_style_ids
        THEN {NUMBER_ALL_STYLES}
        ELSE {style_id \in unique_style_ids :
                 NUMBER_ALL_STYLES <= style_id /\ style_id <= MAX_NUMBER_STYLES}

(***************************************************************************)
(* Reads used by the ranking queries                                       *)
(***************************************************************************)
(* select ... array_agg(ClientStyles.style_id) from client join            *)
(* client_styles where client_id = .. group by client: one row, or none    *)
(* when the client has no row or no style row (inner join).                *)
(* Variant with an outer join: the row of a client without style rows too. *)
get_client_info_and_styles_outerjoin(client_id) ==
    { [client_id |-> c.client_id, city |-> c.city, tattoo_type |-> c.tattoo_type,
       list_styles |-> {cs.style_id : cs \in {x \in client_styles : x.client_id = c.client_id}}]
      : c \in {x \in client : x.client_id = client_id} }

get_client_info_and_styles(client_id) ==
    { [client_id |-> c.client_id, city |-> c.city, tattoo_type |-> c.tattoo_type,
       list_styles |-> {cs.style_id : cs \in {x \in client_styles : x.client_id = c.client_id}}]
      : c \in {x \in client : x.client_id = client_id
                              /\ \E cs \in client_styles : cs.client_id = x.client_id} }

(* Variant that keeps only the masters of the client's own type. *)
filter_type_same_type_only(tattoo_type, m) ==
    IF tattoo_type = TATTOO_TYPE_MONOCHROME THEN m.tattoo_type = TATTOO_TYPE_MONOCHROME
    ELSE IF tattoo_type = TATTOO_TYPE_COLOR THEN m.tattoo_type = TATTOO_TYPE_COLOR
    ELSE TRUE

filter_type(tattoo_type, m) ==
    IF tattoo_type = TATTOO_TYPE_MONOCHROME THEN m.tattoo_type # TATTOO_TYPE_COLOR
    ELSE IF tattoo_type = TATTOO_TYPE_COLOR THEN m.tattoo_type # TATTOO_TYPE_MONOCHROME
    ELSE TRUE

(* count(Likes.master_id) over outerjoin(Master, Likes), grouped by master. *)
count_likes(master_id) == Cardinality({l \in likes : l.master_id = master_id})

(* Variant without the order_by clause: the rows in any order. *)
order_by_nothing(rows) == Perms(rows)

(* order_by(desc("count_likes")): every order of the rows the database may *)
(* produce; rows with equal counts come in any order.                      *)
order_by_desc_count_likes(rows) ==
    {p \in Perms(rows) : \A i \in 1..(Len(p) - 1) : p[i].likes >= p[i + 1].likes}

master_tuple(m) == [master_id |-> m.master_id, city |-> m.city, likes |-> count_likes(m.master_id)]

(* Variant that drops the partial batch: len_index // len_return. *)
number_iter_floor(len_index, len_return) == len_index \div len_return

(* len_index // len_return + bool(len_index % len_return), with Python's   *)
(* floor division: for a negative len_return both operands change sign.    *)
number_iter(len_index, len_return) ==
    LET a == IF len_return < 0 THEN -len_index ELSE len_index
        b == IF len_return < 0 THEN -len_return ELSE len_return
    IN  (a \div b) + (IF a % b # 0 THEN 1 ELSE 0)

(* Variant of fetchmany that slices the remaining rows as rows[0:size]: a  *)
(* negative size gives all the remaining rows but the last -size.          *)
fetchmany_slice(rows, pos, size) ==
    IF size >= 0 THEN SubSeq(rows, pos + 1, Min(pos + size, Len(rows)))
    ELSE IF Len(rows) + size >= pos + 1 THEN SubSeq(rows, pos + 1, Len(rows) + size)
    ELSE <<>>

(* generator_list_masters.fetchmany(size) with pos rows already consumed:  *)
(* the next size rows, fewer at the end of the result, none for a size     *)
(* that is not positive.                                                   *)
fetchmany(rows, pos, size) ==
    IF size <= 0 THEN <<>>
    ELSE SubSeq(rows, pos + 1, Min(pos + size, Len(rows)))

(* A negative size is refused by the result object (ValueError of          *)
(* itertools.islice) when fetchmany is reached at all.                     *)
fetchmany_refuses(len_index, len_return) ==
    len_return < 0 /\ number_iter(len_index, len_return) > 0

(* for _ in range(number_iter): list_tuples_masters = cursor.fetchmany(len_return) *)
RECURSIVE fetch_batches(_, _, _, _, _)
fetch_batches(rows, pos, len_return, iters, list_tuples_masters) ==
    IF iters <= 0 THEN list_tuples_masters
    ELSE LET value == fetchmany(rows, pos, len_return)
         IN  fetch_batches(rows, pos + Len(value), len_return, iters - 1, value)

(* Variant that returns every row up to the end index len_index. *)
fetch_up_to_end_index(rows, len_index, len_return) ==
    SubSeq(rows, 1, Min(len_index, Len(rows)))

(* Variant that keeps the last batch that was not empty. *)
fetch_last_nonempty(rows, len_index, len_return) ==
    LET full == (Len(rows) + len_return - 1) \div len_return
        k == Min(number_iter(len_index, len_return), full)
    IN  IF k <= 0 THEN <<>>
        ELSE SubSeq(rows, (k - 1) * len_return + 1, Min(k * len_return, Len(rows)))

fetch_window(rows, len_index, len_return) ==
    fetch_batches(rows, 0, len_return, number_iter(len_index, len_return), <<>>)

get_master_list_photos(list_master_id) ==
    [master_id \in Range(list_master_id) |->
        {p.photo_path : p \in {x \in master_photos : x.master_id = master_id}}]

get_master_list_selected_styles(list_master_id) ==
    [master_id \in Range(list_master_id) |->
        {s.style_name : s \in {x \in Styles :
            \E ms \in master_styles : ms.master_id = master_id /\ ms.style_id = x.style_id}}]

(* The loop that creates the dictionaries from the page and the two dicts. *)
build_dicts(list_tuples_masters, photo_path, styles) ==
    [i \in 1..Len(list_tuples_masters) |->
        [master_id |-> list_tuples_masters[i].master_id,
         city |-> list_tuples_masters[i].city,
         styles |-> styles[list_tuples_masters[i].master_id],
         photo_path |-> photo_path[list_tuples_masters[i].master_id],
         likes |-> list_tuples_masters[i].likes]]

master_dicts(list_tuples_masters) ==
    LET list_master_id == Ids(list_tuples_masters)
        photo_path == get_master_list_photos(list_master_id)
        styles == get_master_list_selected_styles(list_master_id)
    IN  build_dicts(list_tuples_masters, photo_path, styles)

(***************************************************************************)
(* Candidate selection (master_queries.py, "ФУНКЦИИ ПОИСКА АНКЕТ МАСТЕРОВ")*)
(***************************************************************************)
(* all_master_client of get_master_ranking_by_like_all and of              *)
(* get_master_ranking_by_like_city (the same text): Master.city == city.   *)
all_master_client_in_city(client_id, city, tattoo_type, list_styles) ==
    IF list_styles = {NUMBER_ALL_STYLES}
    THEN {ms.master_id : ms \in {x \in master_styles :
             \E m \in master :
                 /\ m.master_id = x.master_id
                 /\ filter_type(tattoo_type, m)
                 /\ ~m.is_blocked
                 /\ m.city = city}}
    ELSE LET masters_for_client ==
                 {ms.master_id : ms \in {x \in master_styles :
                     \E m \in master, cs \in client_styles :
                         /\ m.master_id = x.master_id
                         /\ cs.style_id = x.style_id
                         /\ filter_type(tattoo_type, m)
                         /\ cs.client_id = client_id
                         /\ m.city = city}}
             universal_masters_for_client ==
                 {ms.master_id : ms \in {x \in master_styles :
                     \E m \in master :
                         /\ m.master_id = x.master_id
                         /\ filter_type(tattoo_type, m)
                         /\ x.style_id = NUMBER_ALL_STYLES
                         /\ m.city = city}}
         IN  masters_for_client \cup universal_masters_for_client

(* Variant of the other-city subquery that keeps only the masters holding *)
(* the wildcard style id.                                                  *)
all_master_client_other_city_universal_only(client_id, city, tattoo_type, list_styles) ==
    {ms.master_id : ms \in {x \in master_styles :
        \E m \in master :
            /\ m.master_id = x.master_id
            /\ filter_type(tattoo_type, m)
            /\ x.style_id = NUMBER_ALL_STYLES
            /\ m.city # city}}

(* all_master_client of get_master_ranking_by_like_none: Master.city != city. *)
all_master_client_other_city(client_id, city, tattoo_type, list_styles) ==
    IF list_styles = {NUMBER_ALL_STYLES}
    THEN {ms.master_id : ms \in {x \in master_styles :
             \E m \in master :
                 /\ m.master_id = x.master_id
                 /\ filter_type(tattoo_type, m)
                 /\ ~m.is_blocked
                 /\ m.city # city}}
    ELSE LET masters_for_client ==
                 {ms.master_id : ms \in {x \in master_styles :
                     \E m \in master, cs \in client_styles :
                         /\ m.master_id = x.master_id
                         /\ cs.style_id = x.style_id
                         /\ filter_type(tattoo_type, m)
                         /\ cs.client_id = client_id
                         /\ m.city # city}}
             universal_masters_for_client ==
                 {ms.master_id : ms \in {x \in master_styles :
                     \E m \in master :
                         /\ m.master_id = x.master_id
                         /\ filter_type(tattoo_type, m)
                         /\ x.style_id = NUMBER_ALL_STYLES
                         /\ m.city # city}}
         IN  masters_for_client \cup universal_masters_for_client

(* Variant of tier 'all' without Master.id.in_(all_master_client). *)
request_all_without_in(c) ==
    {master_tuple(m) : m \in {x \in master : x.city = c.city /\ ~x.is_blocked}}

(* Variant of tier 'city' without Master.id.not_in(all_master_client). *)
request_city_without_not_in(c) ==
    {master_tuple(m) : m \in {x \in master : x.city = c.city /\ ~x.is_blocked}}

(* Variant of the liked view without Master.is_blocked == False. *)
request_liked_with_blocked(client_id) ==
    LET like_id_list == {l.master_id : l \in {x \in likes : x.client_id = client_id}}
    IN  {master_tuple(m) : m \in {x \in master : x.master_id \in like_id_list}}

(* The rows of "request", before order_by. *)
request_all(c) ==
    {master_tuple(m) : m \in {x \in master :
        /\ x.city = c.city
        /\ ~x.is_blocked
        /\ x.master_id \in all_master_client_in_city(c.client_id, c.city, c.tattoo_type, c.list_styles)}}

request_city(c) ==
    {master_tuple(m) : m \in {x \in master :
        /\ x.city = c.city
        /\ ~x.is_blocked
        /\ x.master_id \notin all_master_client_in_city(c.client_id, c.city, c.tattoo_type, c.list_styles)}}

request_none(c) ==
    {master_tuple(m) : m \in {x \in master :
        /\ x.city # c.city
        /\ ~x.is_blocked
        /\ x.master_id \in all_master_client_other_city(c.client_id, c.city, c.tattoo_type, c.list_styles)}}

request_liked(client_id) ==
    LET like_id_list == {l.master_id : l \in {x \in likes : x.client_id = client_id}}
    IN  {master_tuple(m) : m \in {x \in master :
            x.master_id \in like_id_list /\ ~x.is_blocked}}

(* Variant of the newly-registered view without Master.date_of_reg > day_ago. *)
request_new_registered_any_date(client_id) ==
    LET client_city == {c.city : c \in {x \in client : x.client_id = client_id}}
    IN  {master_tuple(m) : m \in {x \in master : x.city \in client_city /\ ~x.is_blocked}}

request_new_registered(client_id) ==
    LET day_ago == now - WEEK_DAYS
        client_city == {c.city : c \in {x \in client : x.client_id = client_id}}
        reg_day_ago == {m.master_id : m \in {x \in master :
                           x.city \in client_city /\ x.date_of_reg > day_ago}}
    IN  {master_tuple(m) : m \in {x \in master :
            x.master_id \in reg_day_ago /\ ~x.is_blocked}}

(***************************************************************************)
(* The ranking handlers.  Each gives the set of outcomes the call can have *)
(* on the current rows: ranked is the cursor of session.execute(request),  *)
(* page is list_tuples_masters, result the returned list; raised is TRUE   *)
(* when an exception reached the handler's except clause, which logs it    *)
(* and lets the function return None.                                      *)
(***************************************************************************)
Outcome(ranked, page, result, raised) ==
    [ranked |-> ranked, page |-> page, result |-> result, raised |-> raised]

EmptyOutcome == Outcome(<<>>, <<>>, <<>>, FALSE)

(* session.execute(request), the fetchmany loop, the two batched lookups   *)
(* and the list of dictionaries: the tail shared by the three tiers and by *)
(* get_master_new_registered.  len_return = 0 raises ZeroDivisionError; a  *)
(* negative len_return that reaches fetchmany gives no row or is refused.  *)
fetch_and_build(rows, len_index, len_return) ==
    UNION {IF len_return = 0
           THEN {Outcome(ranked, <<>>, <<>>, TRUE)}
           ELSE LET list_tuples_masters == fetch_window(ranked, len_index, len_return)
                IN  {Outcome(ranked, list_tuples_masters, master_dicts(list_tuples_masters), FALSE)}
                    \cup (IF fetchmany_refuses(len_index, len_return)
                          THEN {Outcome(ranked, <<>>, <<>>, TRUE)} ELSE {})
           : ranked \in order_by_desc_count_likes(rows)}

get_master_ranking_by_like_all(client_id, len_index, len_return) ==
    LET found == get_client_info_and_styles(client_id)
    IN  IF found = {} THEN {EmptyOutcome}
        ELSE fetch_and_build(request_all(CHOOSE c \in found : TRUE), len_index, len_return)

get_master_ranking_by_like_city(client_id, len_index, len_return) ==
    LET found == get_client_info_and_styles(client_id)
    IN  IF found = {} THEN {EmptyOutcome}
        ELSE fetch_and_build(request_city(CHOOSE c \in found : TRUE), len_index, len_return)

get_master_ranking_by_like_none(client_id, len_index, len_return) ==
    LET found == get_client_info_and_styles(client_id)
    IN  IF found = {} THEN {EmptyOutcome}
        ELSE fetch_and_build(request_none(CHOOSE c \in found : TRUE), len_index, len_return)

(* Variant of filtering_values that also takes the token 'best'. *)
filtering_values_with_best == {"all", "city", "none", "best"}

filtering_values == {"all", "city", "none"}

get_master_ranking_by_like_with_except(client_id, len_index, len_return, filtered) ==
    IF filtered \notin filtering_values THEN {EmptyOutcome}
    ELSE IF filtered = "all" THEN get_master_ranking_by_like_all(client_id, len_index, len_return)
    ELSE IF filtered = "city" THEN get_master_ranking_by_like_city(client_id, len_index, len_return)
    ELSE get_master_ranking_by_like_none(client_id, len_index, len_return)

get_master_new_registered(client_id, len_index, len_return) ==
    fetch_and_build(request_new_registered(client_id), len_index, len_return)

(* The liked view builds its cards itself.  list_tuples_masters is bound   *)
(* only inside the fetchmany loop (NameError when number_iter is 0); the   *)
(* photo rows come one per master that has photos, in the order of the     *)
(* GROUP BY, and are attached by position; the styles come from a dict by  *)
(* master_id (KeyError when the master has no style row).                  *)
liked_dicts(list_tuples_masters, master_foto_list) ==
    LET list_master_id == Ids(list_tuples_masters)
        style_master_dict == get_master_list_selected_styles(list_master_id)
    IN  [i \in 1..Len(list_tuples_masters) |->
            [master_id |-> list_tuples_masters[i].master_id,
             city |-> list_tuples_masters[i].city,
             styles |-> style_master_dict[list_master_id[i]],
             photo_path |-> master_foto_list[i],
             likes |-> list_tuples_masters[i].likes]]

liked_build(ranked, list_tuples_masters) ==
    LET list_master_id == Ids(list_tuples_masters)
        with_photos == {id \in Range(list_master_id) :
                           \E p \in master_photos : p.master_id = id}
        no_styles == {id \in Range(list_master_id) :
                         ~\E ms \in master_styles : ms.master_id = id}
    IN  {LET master_foto_list ==
                 [i \in 1..Len(group_order) |->
                     {p.photo_path : p \in {x \in master_photos : x.master_id = group_order[i]}}]
         IN  IF no_styles # {} \/ Len(master_foto_list) < Len(list_tuples_masters)
             THEN Outcome(ranked, list_tuples_masters, <<>>, TRUE)
             ELSE Outcome(ranked, list_tuples_masters,
                          liked_dicts(list_tuples_masters, master_foto_list), FALSE)
         : group_order \in Perms(with_photos)}

get_master_liked_client(client_id, len_index, len_return) ==
    UNION {IF len_return = 0 THEN {Outcome(ranked, <<>>, <<>>, TRUE)}
           ELSE IF number_iter(len_index, len_return) <= 0
                THEN {Outcome(ranked, <<>>, <<>>, TRUE)}
                ELSE liked_build(ranked, fetch_window(ranked, len_index, len_return))
                     \cup (IF fetchmany_refuses(len_index, len_return)
                           THEN {Outcome(ranked, <<>>, <<>>, TRUE)} ELSE {})
           : ranked \in order_by_desc_count_likes(request_liked(client_id))}

(***************************************************************************)
(* Write operations                                                        *)
(***************************************************************************)
rest_of_call == <<call, proc, scroll, liker, like_log>>

(* update(Master).where(Master.master_id == master_id).values({field: v}) *)
update_master_city(master_id, new_value) ==
    /\ master' = {IF m.master_id = master_id THEN [m EXCEPT !.city = new_value] ELSE m : m \in master}
    /\ UNCHANGED <<client, master_styles, client_styles, likes, master_photos, now>>
    /\ UNCHANGED rest_of_call

update_master_tattoo_type(master_id, new_value) ==
    /\ master' = {IF m.master_id = master_id THEN [m EXCEPT !.tattoo_type = new_value] ELSE m : m \in master}
    /\ UNCHANGED <<client, master_styles, client_styles, likes, master_photos, now>>
    /\ UNCHANGED rest_of_call

update_master_is_blocked(master_id, new_value) ==
    /\ master' = {IF m.master_id = master_id THEN [m EXCEPT !.is_blocked = new_value] ELSE m : m \in master}
    /\ UNCHANGED <<client, master_styles, client_styles, likes, master_photos, now>>
    /\ UNCHANGED rest_of_call

update_client_tattoo_type(client_id, new_value) ==
    /\ client' = {IF c.client_id = client_id THEN [c EXCEPT !.tattoo_type = new_value] ELSE c : c \in client}
    /\ UNCHANGED <<master, master_styles, client_styles, likes, master_photos, now>>
    /\ UNCHANGED rest_of_call

(* delete(ClientStyles).where(ClientStyles.client_id == client_id) *)
delete_client_style(rows, client_id) == {cs \in rows : cs.client_id # client_id}

delete_master_styles(rows, master_id) == {ms \in rows : ms.master_id # master_id}

(* The insert transaction of create_client_styles: one row per validated   *)
(* id that the catalog holds.  A row that breaks unique_client_styles or   *)
(* the foreign key to client raises IntegrityError at commit: the          *)
(* transaction is rolled back and the handler logs the error.              *)
insert_client_styles(rows, client_id, style_ids) ==
    LET added == {[client_id |-> client_id, style_id |-> style_id] :
                     style_id \in {x \in validate_style_ids(style_ids) :
                                      \E s \in Styles : s.style_id = x}}
    IN  IF added = {} THEN rows
        ELSE IF (\E c \in client : c.client_id = client_id) /\ added \cap rows = {}
             THEN rows \cup added
             ELSE rows

insert_master_styles(rows, master_id, style_ids) ==
    LET added == {[master_id |-> master_id, style_id |-> style_id] :
                     style_id \in {x \in validate_style_ids(style_ids) :
                                      \E s \in Styles : s.style_id = x}}
    IN  IF added = {} THEN rows
        ELSE IF (\E m \in master : m.master_id = master_id) /\ added \cap rows = {}
             THEN rows \cup added
             ELSE rows

(* create_client_styles / create_master_styles run with no other coroutine *)
(* between the delete and the insert transaction.                          *)
create_client_styles(client_id, style_ids) ==
    /\ client_styles' = insert_client_styles(delete_client_style(client_styles, client_id),
                                             client_id, style_ids)
    /\ UNCHANGED <<master, client, master_styles, likes, master_photos, now>>
    /\ UNCHANGED rest_of_call

create_master_styles(master_id, style_ids) ==
    /\ master_styles' = insert_master_styles(delete_master_styles(master_styles, master_id),
                                             master_id, style_ids)
    /\ UNCHANGED <<master, client, client_styles, likes, master_photos, now>>
    /\ UNCHANGED rest_of_call

(* The same handler as two steps of coroutine p: the await of              *)
(* delete_client_style returns, and later the insert transaction commits.  *)
IdleProc ==
    [pc |-> "idle", id |-> 0, style_ids |-> <<>>, role |-> "", old |-> {}, taken |-> FALSE,
     ret |-> ""]

create_client_styles_delete(p, client_id, style_ids) ==
    /\ proc[p].pc = "idle"
    /\ client_styles' = delete_client_style(client_styles, client_id)
    /\ proc' = [proc EXCEPT ![p] =
                   [IdleProc EXCEPT !.pc = "insert", !.id = client_id, !.style_ids = style_ids,
                                    !.role = "client_styles",
                                    !.old = {cs.style_id : cs \in {x \in client_styles :
                                                                      x.client_id = client_id}}]]
    /\ UNCHANGED <<master, client, master_styles, likes, master_photos, now>>
    /\ UNCHANGED <<call, scroll, liker, like_log>>

create_client_styles_insert(p) ==
    /\ proc[p].pc = "insert"
    /\ proc[p].role = "client_styles"
    /\ client_styles' = insert_client_styles(client_styles, proc[p].id, proc[p].style_ids)
    /\ proc' = [proc EXCEPT ![p] = IdleProc]
    /\ UNCHANGED <<master, client, master_styles, likes, master_photos, now>>
    /\ UNCHANGED <<call, scroll, liker, like_log>>

(* create_master_styles in the same two steps. *)
create_master_styles_delete(p, master_id, style_ids) ==
    /\ proc[p].pc = "idle"
    /\ master_styles' = delete_master_styles(master_styles, master_id)
    /\ proc' = [proc EXCEPT ![p] =
                   [IdleProc EXCEPT !.pc = "insert", !.id = master_id, !.style_ids = style_ids,
                                    !.role = "master_styles",
                                    !.old = {ms.style_id : ms \in {x \in master_styles :
                                                                      x.master_id = master_id}}]]
    /\ UNCHANGED <<master, client, client_styles, likes, master_photos, now>>
    /\ UNCHANGED <<call, scroll, liker, like_log>>

create_master_styles_insert(p) ==
    /\ proc[p].pc = "insert"
    /\ proc[p].role = "master_styles"
    /\ master_styles' = insert_master_styles(master_styles, proc[p].id, proc[p].style_ids)
    /\ proc' = [proc EXCEPT ![p] = IdleProc]
    /\ UNCHANGED <<master, client, client_styles, likes, master_photos, now>>
    /\ UNCHANGED <<call, scroll, liker, like_log>>

(* create_client and create_master, each in its two transactions: the     *)
(* check of the other table (check_master_in_db / check_client_in_db, a    *)
(* hit raises ValueError: return False), then the INSERT, whose primary    *)
(* key raises IntegrityError when the table holds the id: return False.    *)
(* taken: the other table held the id when the INSERT was committed.       *)
NewClient(client_id) == [client_id |-> client_id, city |-> "A", tattoo_type |-> TATTOO_TYPE_BOTH]

NewMaster(master_id) ==
    [master_id |-> master_id, city |-> "A", tattoo_type |-> TATTOO_TYPE_BOTH,
     is_blocked |-> FALSE, date_of_reg |-> now]

check_master_in_db(master_id) == \E m \in master : m.master_id = master_id

check_client_in_db(client_id) == \E c \in client : c.client_id = client_id

create_client_check(p, client_id) ==
    /\ proc[p].pc = "idle"
    /\ proc' = [proc EXCEPT ![p] =
                   IF check_master_in_db(client_id)
                   THEN [IdleProc EXCEPT !.pc = "done", !.id = client_id, !.role = "client",
                                         !.taken = TRUE, !.ret = "False"]
                   ELSE [IdleProc EXCEPT !.pc = "insert", !.id = client_id, !.role = "client"]]
    /\ UNCHANGED store
    /\ UNCHANGED <<call, scroll, liker, like_log>>

create_client_insert(p) ==
    /\ proc[p].pc = "insert"
    /\ proc[p].role = "client"
    /\ LET exists == check_client_in_db(proc[p].id)
       IN  /\ client' = IF exists THEN client ELSE client \cup {NewClient(proc[p].id)}
           /\ proc' = [proc EXCEPT ![p].pc = "done",
                                   ![p].taken = check_master_in_db(proc[p].id),
                                   ![p].ret = IF exists THEN "False" ELSE "True"]
    /\ UNCHANGED <<master, master_styles, client_styles, likes, master_photos, now>>
    /\ UNCHANGED <<call, scroll, liker, like_log>>

create_master_check(p, master_id) ==
    /\ proc[p].pc = "idle"
    /\ proc' = [proc EXCEPT ![p] =
                   IF check_client_in_db(master_id)
                   THEN [IdleProc EXCEPT !.pc = "done", !.id = master_id, !.role = "master",
                                         !.taken = TRUE, !.ret = "False"]
                   ELSE [IdleProc EXCEPT !.pc = "insert", !.id = master_id, !.role = "master"]]
    /\ UNCHANGED store
    /\ UNCHANGED <<call, scroll, liker, like_log>>

create_master_insert(p) ==
    /\ proc[p].pc = "insert"
    /\ proc[p].role = "master"
    /\ LET exists == check_master_in_db(proc[p].id)
       IN  /\ master' = IF exists THEN master ELSE master \cup {NewMaster(proc[p].id)}
           /\ proc' = [proc EXCEPT ![p].pc = "done",
                                   ![p].taken = check_client_in_db(proc[p].id),
                                   ![p].ret = IF exists THEN "False" ELSE "True"]
    /\ UNCHANGED <<client, master_styles, client_styles, likes, master_photos, now>>
    /\ UNCHANGED <<call, scroll, liker, like_log>>

create_return(p) ==
    /\ proc[p].pc = "done"
    /\ proc' = [proc EXCEPT ![p] = IdleProc]
    /\ UNCHANGED store
    /\ UNCHANGED <<call, scroll, liker, like_log>>

(* delete_master: session.delete(master). *)
delete_master(master_id) ==
    /\ master' = {m \in master : m.master_id # master_id}
    /\ likes' = {l \in likes : l.master_id # master_id}
    /\ master_styles' = {ms \in master_styles : ms.master_id # master_id}
    /\ master_photos' = {ph \in master_photos : ph.master_id # master_id}
    /\ UNCHANGED <<client, client_styles, now>>
    /\ UNCHANGED rest_of_call

(* A row of likes.  like_id, the autoincrement key, tells the rows of one  *)
(* pair apart: it is the ordinal of the row among the rows of its pair.    *)
Like(client_id, master_id, like_id) ==
    [client_id |-> client_id, master_id |-> master_id, like_id |-> like_id]

likes_of_pair(rows, client_id, master_id) ==
    {l \in rows : l.client_id = client_id /\ l.master_id = master_id}

(* Variant of the INSERT without unique_client_master_likes. *)
insert_like_without_unique(rows, client_id, master_id) ==
    IF /\ \E c \in client : c.client_id = client_id
       /\ \E m \in master : m.master_id = master_id
    THEN [rows |-> rows \cup {Like(client_id, master_id,
                                   Cardinality(likes_of_pair(rows, client_id, master_id)) + 1)},
          raised |-> FALSE]
    ELSE [rows |-> rows, raised |-> TRUE]

(* The INSERT flushed when session.begin() commits: the foreign keys on    *)
(* client_id and master_id and the unique constraint on the pair raise     *)
(* IntegrityError and leave the table as it was.                          *)
insert_like(rows, client_id, master_id) ==
    IF /\ \E c \in client : c.client_id = client_id
       /\ \E m \in master : m.master_id = master_id
       /\ likes_of_pair(rows, client_id, master_id) = {}
    THEN [rows |-> rows \cup {Like(client_id, master_id, 1)}, raised |-> FALSE]
    ELSE [rows |-> rows, raised |-> TRUE]

(* Variant that returns True whatever the commit does. *)
create_like_returns_true(raised) == "True"

(* return True inside session.begin(); except IntegrityError: return False *)
create_like_returns(raised) == IF raised THEN "False" ELSE "True"

(* create_like as one step. *)
create_like(client_id, master_id) ==
    /\ likes' = insert_like(likes, client_id, master_id).rows
    /\ UNCHANGED <<master, client, master_styles, client_styles, master_photos, now>>
    /\ UNCHANGED rest_of_call

(* create_like step by step: session.add, then the commit on leaving       *)
(* session.begin(), then the value handed to the caller.  fresh: no call   *)
(* for the pair had completed when this one started; first: none had       *)
(* completed just before the commit; existed: the pair had a row just      *)
(* before the commit; created: the commit added a row.                     *)
IdleLiker ==
    [pc |-> "idle", client_id |-> 0, master_id |-> 0, fresh |-> FALSE, first |-> FALSE,
     existed |-> FALSE, created |-> FALSE, ret |-> ""]

create_like_add(p, client_id, master_id) ==
    /\ liker[p].pc = "idle"
    /\ liker' = [liker EXCEPT ![p] =
                    [IdleLiker EXCEPT !.pc = "added", !.client_id = client_id,
                                      !.master_id = master_id,
                                      !.fresh = <<client_id, master_id>> \notin like_log]]
    /\ UNCHANGED store
    /\ UNCHANGED <<call, proc, scroll, like_log>>

create_like_commit(p) ==
    /\ liker[p].pc = "added"
    /\ LET r == insert_like(likes, liker[p].client_id, liker[p].master_id)
       IN  /\ likes' = r.rows
           /\ liker' = [liker EXCEPT ![p].pc = "done",
                                     ![p].first = <<liker[p].client_id, liker[p].master_id>> \notin like_log,
                                     ![p].existed = likes_of_pair(likes, liker[p].client_id, liker[p].master_id) # {},
                                     ![p].created = r.rows # likes,
                                     ![p].ret = create_like_returns(r.raised)]
    /\ like_log' = like_log \cup {<<liker[p].client_id, liker[p].master_id>>}
    /\ UNCHANGED <<master, client, master_styles, client_styles, master_photos, now>>
    /\ UNCHANGED <<call, proc, scroll>>

create_like_return(p) ==
    /\ liker[p].pc = "done"
    /\ liker' = [liker EXCEPT ![p] = IdleLiker]
    /\ UNCHANGED store
    /\ UNCHANGED <<call, proc, scroll, like_log>>

delete_like(client_id, master_id) ==
    /\ likes' = {l \in likes : ~(l.client_id = client_id /\ l.master_id = master_id)}
    /\ UNCHANGED <<master, client, master_styles, client_styles, master_photos, now>>
    /\ UNCHANGED rest_of_call

(* delete_client: session.delete(client); the relationships likes and      *)
(* styles of Client cascade the delete to the client's rows.               *)
delete_client(client_id) ==
    /\ client' = {c \in client : c.client_id # client_id}
    /\ likes' = {l \in likes : l.client_id # client_id}
    /\ client_styles' = {cs \in client_styles : cs.client_id # client_id}
    /\ UNCHANGED <<master, master_styles, master_photos, now>>
    /\ UNCHANGED rest_of_call

(***************************************************************************)
(* Ranking calls                                                           *)
(***************************************************************************)
NoCall ==
    [op |-> "idle", filtered |-> "", client_id |-> 0, len_index |-> 0, len_return |-> 0,
     ranked |-> <<>>, page |-> <<>>, result |-> <<>>, raised |-> FALSE]

CallRecord(op, filtered, client_id, len_index, len_return, o) ==
    [op |-> op, filtered |-> filtered, client_id |-> client_id,
     len_index |-> len_index, len_return |-> len_return,
     ranked |-> o.ranked, page |-> o.page, result |-> o.result, raised |-> o.raised]

Handler(op, filtered, client_id, len_index, len_return) ==
    IF op = "with_except"
    THEN get_master_ranking_by_like_with_except(client_id, len_index, len_return, filtered)
    ELSE IF op = "liked"
    THEN get_master_liked_client(client_id, len_index, len_return)
    ELSE get_master_new_registered(client_id, len_index, len_return)

RunCall(op, filtered, client_id, len_index, len_return) ==
    /\ call.op = "idle"
    /\ \E o \in Handler(op, filtered, client_id, len_index, len_return) :
           call' = CallRecord(op, filtered, client_id, len_index, len_return, o)
    /\ UNCHANGED store
    /\ UNCHANGED <<proc, liker, like_log>>

RankWithExcept(client_id, len_index, len_return, filtered) ==
    RunCall("with_except", filtered, client_id, len_index, len_return) /\ UNCHANGED scroll

RankLiked(client_id, len_index, len_return) ==
    RunCall("liked", "", client_id, len_index, len_return) /\ UNCHANGED scroll

RankNewRegistered(client_id, len_index, len_return) ==
    RunCall("new_registered", "", client_id, len_index, len_return) /\ UNCHANGED scroll

(* The result is handed to the caller. *)
Return ==
    /\ call.op # "idle"
    /\ call' = NoCall
    /\ UNCHANGED store
    /\ UNCHANGED <<proc, scroll, liker, like_log>>

(***************************************************************************)
(* Spec: profile edits and candidate selection.  One client and NumMasters *)
(* masters are registered; masters 1..NumEdited and the client edit their  *)
(* profiles; every ranking call reads the rows between two edits and asks  *)
(* for the whole list in one page.                                         *)
(***************************************************************************)
NoScroll ==
    [active |-> FALSE, op |-> "", filtered |-> "", k |-> 0, n |-> 0, acc |-> <<>>,
     done |-> FALSE, whole |-> FALSE]

SeedMaster(i) ==
    [master_id |-> i,
     city |-> IF i <= 2 THEN "A" ELSE "B",
     tattoo_type |-> TATTOO_TYPE_BOTH,
     is_blocked |-> FALSE,
     date_of_reg |-> IF i = 2 THEN SeedNow - WEEK_DAYS ELSE SeedNow - 1]

SeedClient(i) == [client_id |-> i, city |-> "A", tattoo_type |-> TATTOO_TYPE_BOTH]

Photo(i) == [master_id |-> i, photo_path |-> <<"photo", i>>]

Init ==
    /\ master = {SeedMaster(i) : i \in MasterIds}
    /\ client = {SeedClient(ClientId)}
    /\ master_styles = {[master_id |-> i, style_id |-> NUMBER_ALL_STYLES] : i \in MasterIds \ EditedMasters}
    /\ client_styles = {}
    /\ likes = {Like(ClientId, i, 1) : i \in {j \in MasterIds : j % 2 = 1}}
    /\ master_photos = {Photo(i) : i \in {j \in MasterIds : j % 2 = 1}}
    /\ now = SeedNow
    /\ call = NoCall
    /\ proc = [p \in Procs |-> IdleProc]
    /\ liker = [p \in Procs |-> IdleLiker]
    /\ like_log = {}
    /\ scroll = NoScroll

Filters == {"all", "city", "none", "best"}

EditMaster ==
    /\ call.op = "idle"
    /\ \E m \in EditedMasters :
        \/ \E c \in Cities : update_master_city(m, c)
        \/ \E t \in TattooTypes : update_master_tattoo_type(m, t)
        \/ \E b \in BOOLEAN : update_master_is_blocked(m, b)
        \/ \E ids \in StyleInputs : create_master_styles(m, ids)

EditClient ==
    /\ call.op = "idle"
    /\ \/ \E t \in TattooTypes : update_client_tattoo_type(ClientId, t)
       \/ \E ids \in StyleInputs : create_client_styles(ClientId, ids)

RankWhole ==
    \E c \in {ClientId, UnknownId} :
        \/ \E f \in Filters : RankWithExcept(c, NumMasters, NumMasters, f)
        \/ RankLiked(c, NumMasters, NumMasters)
        \/ RankNewRegistered(c, NumMasters, NumMasters)

Next == EditMaster \/ EditClient \/ RankWhole \/ Return

Spec == Init /\ [][Next]_vars

(***************************************************************************)
(* Properties of candidate selection                                       *)
(***************************************************************************)
ResultIds == Range(Ids(call.result))

RankedIds == Range(Ids(call.ranked))

StoredStyles(client_id) == {cs.style_id : cs \in {x \in client_styles : x.client_id = client_id}}

MasterStyleIds(master_id) == {ms.style_id : ms \in {x \in master_styles : x.master_id = master_id}}

IsClient(client_id) == \E c \in client : c.client_id = client_id

ClientRow(client_id) == CHOOSE c \in client : c.client_id = client_id

(* The rule table of the type filter. *)
TypeExcluded(preference, capability) ==
    \/ preference = TATTOO_TYPE_MONOCHROME /\ capability = TATTOO_TYPE_COLOR
    \/ preference = TATTOO_TYPE_COLOR /\ capability = TATTOO_TYPE_MONOCHROME

(* Universal match: non-blocked, in the requester's city, passing the type *)
(* filter, with at least one style record.                                 *)
UniversalMatch(client_id) ==
    {m.master_id : m \in {x \in master :
        /\ ~x.is_blocked
        /\ x.city = ClientRow(client_id).city
        /\ ~TypeExcluded(ClientRow(client_id).tattoo_type, x.tattoo_type)
        /\ MasterStyleIds(x.master_id) # {}}}

(* Style match: non-blocked, in the requester's city, passing the type     *)
(* filter, sharing a style id with the requester or holding the wildcard.  *)
StyleMatch(client_id) ==
    {m.master_id : m \in {x \in master :
        /\ ~x.is_blocked
        /\ x.city = ClientRow(client_id).city
        /\ ~TypeExcluded(ClientRow(client_id).tattoo_type, x.tattoo_type)
        /\ \/ MasterStyleIds(x.master_id) \cap StoredStyles(client_id) # {}
           \/ NUMBER_ALL_STYLES \in MasterStyleIds(x.master_id)}}

IsTierCall(filtered) == call.op = "with_except" /\ call.filtered = filtered

(* The ids a tier ranks for a requester on the current rows. *)
TierIds(filtered, client_id) ==
    UNION {Range(Ids(o.ranked)) :
              o \in get_master_ranking_by_like_with_except(client_id, NumMasters, NumMasters, filtered)}

(* C1: no page returned by a ranking operation (the three tiers, the liked *)
(* view, the newly-registered view) holds a master whose is_blocked flag   *)
(* is set in the rows the query read.                                      *)
C1_NoBlockedOnPage ==
    call.op # "idle" =>
        \A id \in ResultIds \cup RankedIds :
            \A m \in master : m.master_id = id => ~m.is_blocked

C1_Witness ==
    /\ call.op = "liked"
    /\ Len(call.result) >= 1
    /\ \E m \in master :
           /\ m.is_blocked
           /\ likes_of_pair(likes, call.client_id, m.master_id) # {}
           /\ MasterStyleIds(m.master_id) # {}

(* C7: for every requester and every state of the rows, the candidate sets *)
(* of the tiers 'all', 'city' and 'none' are pairwise disjoint.            *)
C7_TiersDisjoint ==
    \A c \in {ClientId, UnknownId} :
        LET tier_all == TierIds("all", c)
            tier_city == TierIds("city", c)
            tier_none == TierIds("none", c)
        IN  /\ tier_all \cap tier_city = {}
            /\ tier_all \cap tier_none = {}
            /\ tier_city \cap tier_none = {}

C7_Witness ==
    /\ IsTierCall("city")
    /\ call.client_id = ClientId
    /\ RankedIds # {}
    /\ TierIds("all", ClientId) # {}
    /\ TierIds("none", ClientId) # {}

(* C8: for a requester whose stored style set is exactly the wildcard,     *)
(* tier 'all' is the set of non-blocked masters of the requester's city    *)
(* that pass the type filter and hold at least one style record, whatever  *)
(* styles they hold; a master with no style record is not in it.           *)
C8_WildcardRequester ==
    (IsTierCall("all") /\ IsClient(call.client_id)
        /\ StoredStyles(call.client_id) = {NUMBER_ALL_STYLES})
    => /\ RankedIds = UniversalMatch(call.client_id)
       /\ ResultIds = UniversalMatch(call.client_id)
       /\ \A id \in RankedIds : MasterStyleIds(id) # {}

C8_Witness ==
    /\ IsTierCall("all")
    /\ IsClient(call.client_id)
    /\ StoredStyles(call.client_id) = {NUMBER_ALL_STYLES}
    /\ \E id \in ResultIds : NUMBER_ALL_STYLES \notin MasterStyleIds(id)

(* C9: for a requester whose style set is not exactly the wildcard, tier   *)
(* 'all' is the set of non-blocked masters of the requester's city passing *)
(* the type filter that share a style id with the requester or hold the    *)
(* wildcard themselves.                                                    *)
C9_StyleRequester ==
    (IsTierCall("all") /\ IsClient(call.client_id)
        /\ StoredStyles(call.client_id) # {NUMBER_ALL_STYLES})
    => RankedIds = StyleMatch(call.client_id)

(***************************************************************************)
(* SpecStyles: two coroutines replace the client's styles, each in its two *)
(* transactions, while master 1 changes its styles and the client asks for *)
(* tier 'all'.                                                             *)
(***************************************************************************)
ReplaceClientStyles ==
    /\ call.op = "idle"
    /\ \E p \in Procs :
        \/ \E ids \in StyleInputs : create_client_styles_delete(p, ClientId, ids)
        \/ create_client_styles_insert(p)

ReplaceMasterStyles ==
    /\ call.op = "idle"
    /\ \E m \in EditedMasters, ids \in StyleInputs : create_master_styles(m, ids)

RankTierAll == RankWithExcept(ClientId, NumMasters, NumMasters, "all")

NextStyles == ReplaceClientStyles \/ ReplaceMasterStyles \/ RankTierAll \/ Return

SpecStyles == Init /\ [][NextStyles]_vars

(* C10: for a requester whose stored style set contains the wildcard id,   *)
(* alone or with concrete ids, tier 'all' is the universal-match set.      *)
C10_WildcardPrecedence ==
    (IsTierCall("all") /\ IsClient(call.client_id)
        /\ NUMBER_ALL_STYLES \in StoredStyles(call.client_id))
    => RankedIds = UniversalMatch(call.client_id)

(***************************************************************************)
(* SpecPage: likes and pagination.  All masters match the client (same     *)
(* city, wildcard styles); two clients like and unlike them; the client    *)
(* asks for windows of the three rankings.                                 *)
(***************************************************************************)
InitPage ==
    /\ master = {[SeedMaster(i) EXCEPT !.city = "A", !.date_of_reg = SeedNow - 1] : i \in MasterIds}
    /\ client = {SeedClient(ClientId), SeedClient(OtherClientId)}
    /\ master_styles = {[master_id |-> i, style_id |-> NUMBER_ALL_STYLES] : i \in MasterIds}
    /\ client_styles = {[client_id |-> ClientId, style_id |-> NUMBER_ALL_STYLES]}
    /\ likes = {}
    /\ master_photos = {Photo(i) : i \in MasterIds}
    /\ now = SeedNow
    /\ call = NoCall
    /\ proc = [p \in Procs |-> IdleProc]
    /\ liker = [p \in Procs |-> IdleLiker]
    /\ like_log = {}
    /\ scroll = NoScroll

LikeOrUnlike ==
    /\ call.op = "idle"
    /\ ~scroll.active
    /\ \E c \in {ClientId, OtherClientId}, m \in MasterIds :
        \/ create_like(c, m)
        \/ delete_like(c, m)

RankPage ==
    \E len_index \in 0..MaxLenIndex, len_return \in 0..MaxLenReturn :
        \/ RankWithExcept(ClientId, len_index, len_return, "all")
        \/ RankLiked(ClientId, len_index, len_return)
        \/ RankNewRegistered(ClientId, len_index, len_return)

NextPage == LikeOrUnlike \/ RankPage \/ Return

SpecPage == InitPage /\ [][NextPage]_vars

(* ceil(len_index / len_return): the number of fetchmany batches. *)
Batches(len_index, len_return) == (len_index + len_return - 1) \div len_return

Slice(ids, from, to) == SubSeq(ids, from + 1, Min(to, Len(ids)))

(* The liked view gives None when a master of the window has no style row  *)
(* or no photo row; the tiers and the newly-registered view always give a  *)
(* list for len_return >= 1.                                               *)
GivesList == IF call.op = "liked" THEN TRUE ELSE ~call.raised

C3_EndIndexPages ==
    \A n \in 1..MaxLenIndex :
        (call.op # "idle" /\ call.len_return >= 1 /\ call.len_index = n * call.len_return)
        => /\ GivesList
           /\ ~call.raised
                => Ids(call.result) = Slice(Ids(call.ranked), (n - 1) * call.len_return, n * call.len_return)

C3_Witness ==
    /\ call.op = "with_except"
    /\ call.len_return = 1
    /\ call.len_index = 2
    /\ Len(call.ranked) = NumMasters
    /\ Ids(call.result) = <<call.ranked[2].master_id>>

(* C5: on every returned page, masters with equal like counts come in      *)
(* ascending master_id order.                                              *)
C5_TieBreakById ==
    call.op # "idle" =>
        \A i \in 1..(Len(call.result) - 1) :
            call.result[i].likes = call.result[i + 1].likes
                => call.result[i].master_id < call.result[i + 1].master_id

(* C6: the cards of every returned page are in non-increasing order of     *)
(* like count, and a card's like count is the number of rows of likes that *)
(* reference its master (zero when there is none).                         *)
C6_NonIncreasingLikes ==
    call.op # "idle" =>
        /\ \A i \in 1..(Len(call.result) - 1) : call.result[i].likes >= call.result[i + 1].likes
        /\ \A i \in 1..Len(call.result) :
               call.result[i].likes = Cardinality({l \in likes : l.master_id = call.result[i].master_id})

C6_Witness ==
    /\ call.op = "new_registered"
    /\ Len(call.result) = 3
    /\ call.result[1].likes = 2
    /\ call.result[2].likes = 1
    /\ call.result[3].likes = 0

(***************************************************************************)
(* SpecScroll: a consumer pages through one ranking with pages of k cards  *)
(* (len_index = k, 2k, 3k, ... and len_return = k) until a page comes back *)
(* short, then asks for the whole ranking in one page.  No row changes     *)
(* while the consumer scrolls.  scroll.acc is the concatenation of the     *)
(* pages received so far.                                                  *)
(***************************************************************************)
ScrollViews == {<<"with_except", "all">>, <<"liked", "">>, <<"new_registered", "">>}

ScrollStart ==
    /\ ~scroll.active
    /\ \E v \in ScrollViews, k \in 1..MaxLenReturn :
        /\ RunCall(v[1], v[2], ClientId, k, k)
        /\ scroll' = [active |-> TRUE, op |-> v[1], filtered |-> v[2], k |-> k, n |-> 1,
                      acc |-> Ids(call'.result),
                      done |-> Len(call'.result) < k, whole |-> FALSE]

ScrollNext ==
    /\ scroll.active
    /\ ~scroll.done
    /\ RunCall(scroll.op, scroll.filtered, ClientId, (scroll.n + 1) * scroll.k, scroll.k)
    /\ scroll' = [scroll EXCEPT !.n = @ + 1,
                                !.acc = @ \o Ids(call'.result),
                                !.done = Len(call'.result) < scroll.k]

(* The number of rows of the ranking: the same whatever the order of ties. *)
TotalCount(op, filtered, client_id) ==
    Len((CHOOSE o \in Handler(op, filtered, client_id, 1, 1) : TRUE).ranked)

ScrollWhole ==
    /\ scroll.active
    /\ scroll.done
    /\ ~scroll.whole
    /\ LET total == TotalCount(scroll.op, scroll.filtered, ClientId)
       IN  RunCall(scroll.op, scroll.filtered, ClientId, total, total)
    /\ scroll' = [scroll EXCEPT !.whole = TRUE]

ScrollEnd ==
    /\ scroll.active
    /\ scroll.whole
    /\ call.op = "idle"
    /\ scroll' = NoScroll
    /\ UNCHANGED store
    /\ UNCHANGED <<call, proc, liker, like_log>>

NextScroll == LikeOrUnlike \/ ScrollStart \/ ScrollNext \/ ScrollWhole \/ ScrollEnd \/ Return

SpecScroll == InitPage /\ [][NextScroll]_vars

(* C4: with the rows fixed, the concatenation of the successive pages of   *)
(* size k equals the single page whose size is the total count of the      *)
(* ranking (stated for the calls that return a list).                      *)
C4_PagesConcatenate ==
    (scroll.whole /\ call.op # "idle" /\ ~call.raised)
    => Ids(call.result) = scroll.acc

(***************************************************************************)
(* Type filter and the tiers 'city' and 'none'                             *)
(***************************************************************************)
(* The style condition of a tier for a requester that holds styles. *)
StyleEligible(client_id, m) ==
    IF NUMBER_ALL_STYLES \in StoredStyles(client_id)
    THEN MasterStyleIds(m.master_id) # {}
    ELSE \/ MasterStyleIds(m.master_id) \cap StoredStyles(client_id) # {}
         \/ NUMBER_ALL_STYLES \in MasterStyleIds(m.master_id)

(* C11: among the masters that are not blocked, are in the city scope of   *)
(* the tier and meet its style condition, tier 'all' and tier 'none' leave *)
(* out a master exactly when the requester prefers Monochrome and the      *)
(* master is Color, or the requester prefers Color and the master is       *)
(* Monochrome; preference Both leaves out nobody and a master of type Both *)
(* is never left out.                                                      *)
C11_TypeFilter ==
    \A f \in {"all", "none"} :
        (IsTierCall(f) /\ IsClient(call.client_id) /\ StoredStyles(call.client_id) # {})
        => \A m \in master :
               (/\ ~m.is_blocked
                /\ (f = "all") <=> (m.city = ClientRow(call.client_id).city)
                /\ StyleEligible(call.client_id, m))
               => /\ m.master_id \notin RankedIds
                        <=> TypeExcluded(ClientRow(call.client_id).tattoo_type, m.tattoo_type)
                  /\ ClientRow(call.client_id).tattoo_type = TATTOO_TYPE_BOTH
                        => m.master_id \in RankedIds
                  /\ m.tattoo_type = TATTOO_TYPE_BOTH => m.master_id \in RankedIds

C11_Witness ==
    /\ IsTierCall("none")
    /\ IsClient(call.client_id)
    /\ StoredStyles(call.client_id) # {}
    /\ ClientRow(call.client_id).tattoo_type = TATTOO_TYPE_COLOR
    /\ RankedIds # {}
    /\ \E m \in master :
           /\ ~m.is_blocked
           /\ m.city # ClientRow(call.client_id).city
           /\ StyleEligible(call.client_id, m)
           /\ m.tattoo_type = TATTOO_TYPE_MONOCHROME
           /\ m.master_id \notin RankedIds

(* The non-blocked masters of a city. *)
ActiveInCity(city) == {m.master_id : m \in {x \in master : ~x.is_blocked /\ x.city = city}}

(* C12: tier 'city' is the set of non-blocked masters of the requester's   *)
(* city that are not in tier 'all', so the two tiers together cover every  *)
(* non-blocked master of that city.                                        *)
C12_TierCityComplement ==
    (IsTierCall("city") /\ IsClient(call.client_id))
    => /\ RankedIds = ActiveInCity(ClientRow(call.client_id).city) \ TierIds("all", call.client_id)
       /\ RankedIds \cup TierIds("all", call.client_id) = ActiveInCity(ClientRow(call.client_id).city)

(* The step update_master_city(m, city) for a master that is not blocked. *)
MovesTo(m, city) ==
    /\ \E x \in master : x.master_id = m /\ ~x.is_blocked /\ x.city # city
    /\ master' = {IF x.master_id = m THEN [x EXCEPT !.city = city] ELSE x : x \in master}
    /\ UNCHANGED <<client, master_styles, client_styles, likes, master_photos, now>>

LikeClients == {ClientId, UnknownId}

LikeMasters == EditedMasters \cup {UnknownId}

LikeAdd ==
    \E p \in Procs, c \in LikeClients, m \in LikeMasters : create_like_add(p, c, m)

LikeCommit == \E p \in Procs : create_like_commit(p)

LikeReturn == \E p \in Procs : create_like_return(p)

NextLike == LikeAdd \/ LikeCommit \/ LikeReturn

SpecLike == InitPage /\ [][NextLike]_vars

Registered(client_id, master_id) ==
    /\ \E c \in client : c.client_id = client_id
    /\ \E m \in master : m.master_id = master_id

C16_LikeResult ==
    \A p \in Procs :
        liker[p].pc = "done"
        => /\ liker[p].ret = "True" <=> liker[p].created
           /\ liker[p].ret = "False" <=> liker[p].existed

(***************************************************************************)
(* SpecAbsent: clients like and unlike masters and delete their accounts;  *)
(* the rankings are asked for a client that was deleted or never existed.  *)
(***************************************************************************)
LikeOrUnlikeOrLeave ==
    /\ call.op = "idle"
    /\ \E c \in {ClientId, OtherClientId} :
        \/ \E m \in MasterIds : create_like(c, m)
        \/ \E m \in MasterIds : delete_like(c, m)
        \/ delete_client(c)

RankAnyone ==
    \E c \in {ClientId, UnknownId}, len_index \in 0..MaxLenIndex, len_return \in 1..MaxLenReturn :
        \/ \E f \in Filters : RankWithExcept(c, len_index, len_return, f)
        \/ RankLiked(c, len_index, len_return)
        \/ RankNewRegistered(c, len_index, len_return)

NextAbsent == LikeOrUnlikeOrLeave \/ RankAnyone \/ Return

SpecAbsent == InitPage /\ [][NextAbsent]_vars

(* C17: the table of likes is append-only: no step of the store removes a  *)
(* row of likes.                                                           *)
C17_AppendOnly == [][likes \subseteq likes']_vars

(* C18: for a client_id that has no row in client, the three tiers, the    *)
(* liked view and the newly-registered view return the empty list for      *)
(* every len_index >= 0 and len_return >= 1, never None.                   *)
C18_AbsentRequester ==
    (call.op # "idle" /\ ~IsClient(call.client_id))
    => /\ ~call.raised
       /\ call.result = <<>>

(* C19: in every ranking call, the liked view included, a master of the    *)
(* page without style rows gets an empty list of styles, a master without  *)
(* photo rows an empty list of photos, and the call returns the whole page *)
(* (len_index >= 1, len_return >= 1).                                      *)
C19_EmptyLists ==
    (call.op # "idle" /\ call.len_index >= 1 /\ call.len_return >= 1)
    => /\ ~call.raised
       /\ Ids(call.result) = Ids(call.page)
       /\ \A i \in 1..Len(call.result) :
              /\ MasterStyleIds(call.result[i].master_id) = {} => call.result[i].styles = {}
              /\ (~\E ph \in master_photos : ph.master_id = call.result[i].master_id)
                     => call.result[i].photo_path = {}

(* C20 as stated: a call whose offset (the argument len_index, here >= 1)  *)
(* is at or beyond the number of candidates returns the empty list.        *)
C20_OffsetBeyond ==
    (/\ call.op # "idle"
     /\ call.len_return >= 1
     /\ call.len_index >= 1
     /\ call.len_index >= Len(call.ranked))
    => /\ ~call.raised
       /\ call.result = <<>>

(* C20 amended: for len_index >= 1 and len_return >= 1, a call whose       *)
(* window starts at or beyond the number of candidates, that is            *)
(* (ceil(len_index / len_return) - 1) * len_return >= the number of        *)
(* candidates, returns the empty list and not None.                        *)
C20_WindowBeyond ==
    (/\ call.op # "idle"
     /\ call.len_index >= 1
     /\ call.len_return >= 1
     /\ (Batches(call.len_index, call.len_return) - 1) * call.len_return >= Len(call.ranked))
    => /\ ~call.raised
       /\ call.result = <<>>

C20_Witness ==
    /\ call.op = "liked"
    /\ call.len_index = 4
    /\ call.len_return = 2
    /\ Len(call.ranked) = 2
    /\ call.result = <<>>
    /\ ~call.raised

(***************************************************************************)
(* SpecSigned: the rankings are asked with a negative len_index or a       *)
(* negative len_return, on the rows of SpecPage.                           *)
(***************************************************************************)
RankSigned ==
    \E len_index \in (-MaxLenIndex)..MaxLenIndex, len_return \in (-MaxLenReturn)..MaxLenReturn :
        /\ len_index < 0 \/ len_return < 0
        /\ \/ \E f \in {"all", "city", "none"} : RankWithExcept(ClientId, len_index, len_return, f)
           \/ RankLiked(ClientId, len_index, len_return)
           \/ RankNewRegistered(ClientId, len_index, len_return)

NextSigned == LikeOrUnlike \/ RankSigned \/ Return

SpecSigned == InitPage /\ [][NextSigned]_vars

(* C21: a ranking call with a negative len_index or a negative len_return  *)
(* returns no card: it gives the empty list, or the handler catches the    *)
(* error and gives None; no exception leaves the operation.                *)
C21_NegativeArguments ==
    (call.op # "idle" /\ (call.len_index < 0 \/ call.len_return < 0))
    => call.result = <<>>

C21_Witness ==
    /\ call.op = "liked"
    /\ call.len_index = -3
    /\ call.len_return = -2
    /\ Len(call.ranked) = 3
    /\ call.result = <<>>

(***************************************************************************)
(* SpecSteps: a ranking call statement by statement.  The coroutine yields *)
(* at every await: get_client_info_and_styles, session.execute(request),   *)
(* the photo lookup and the style lookup each open their own session (the  *)
(* liked view runs its three statements in one session, each reading what  *)
(* is committed when it starts), so other coroutines write between them;   *)
(* each statement may also fail (the store cannot be reached).  call holds *)
(* the coroutine: pc its position, found the row of the client, photo_path *)
(* the photos read, reads the statements sent, failed whether one of them  *)
(* failed, last the rows at its latest step, writes the number of changes  *)
(* of the rows seen so far, expect the values the call has as one step on  *)
(* the rows of each of its steps.                                          *)
(***************************************************************************)
MaxWrites == 2

IdleRun ==
    [op |-> "idle", filtered |-> "", client_id |-> 0, len_index |-> 0, len_return |-> 0,
     ranked |-> <<>>, page |-> <<>>, result |-> <<>>, raised |-> FALSE,
     pc |-> "idle", found |-> {}, photo_path |-> <<>>, photo_ok |-> TRUE,
     reads |-> 0, failed |-> FALSE, last |-> <<>>, writes |-> 0, expect |-> {}]

(* What the whole call returns when it runs as one step on the current rows. *)
Atomic(c) ==
    {[result |-> o.result, raised |-> o.raised] :
        o \in Handler(c.op, c.filtered, c.client_id, c.len_index, c.len_return)}

Seen(c) ==
    [c EXCEPT !.expect = @ \cup Atomic(c),
              !.writes = @ + (IF store # c.last THEN 1 ELSE 0),
              !.last = store]

Sent(c, ok) == [Seen(c) EXCEPT !.reads = @ + 1, !.failed = @ \/ ~ok]

Finish(c, result, raised) == [c EXCEPT !.pc = "done", !.result = result, !.raised = raised]

(* The rows of request for the call, from the client row read before. *)
request_rows(c) ==
    IF c.op = "liked" THEN request_liked(c.client_id)
    ELSE IF c.op = "new_registered" THEN request_new_registered(c.client_id)
    ELSE IF c.filtered = "all" THEN request_all(CHOOSE x \in c.found : TRUE)
    ELSE IF c.filtered = "city" THEN request_city(CHOOSE x \in c.found : TRUE)
    ELSE request_none(CHOOSE x \in c.found : TRUE)

(* The call enters the function: result = [], and for the tiers the test   *)
(* of the token.                                                           *)
run_begin(op, filtered, client_id, len_index, len_return) ==
    /\ call.pc = "idle"
    /\ LET c == Seen([IdleRun EXCEPT !.op = op, !.filtered = filtered, !.client_id = client_id,
                                     !.len_index = len_index, !.len_return = len_return,
                                     !.last = store])
       IN  call' = IF op = "with_except" /\ filtered \notin filtering_values
                   THEN Finish(c, <<>>, FALSE)
                   ELSE [c EXCEPT !.pc = IF op = "with_except" THEN "client" ELSE "request"]
    /\ UNCHANGED store
    /\ UNCHANGED <<proc, scroll, liker, like_log>>

(* client = await get_client_info_and_styles(...): None when the statement *)
(* fails; if not client: return result.                                    *)
run_client(ok) ==
    /\ call.pc = "client"
    /\ LET c == Sent(call, ok)
           found == IF ok THEN get_client_info_and_styles(call.client_id) ELSE {}
       IN  call' = IF found = {} THEN Finish(c, <<>>, FALSE)
                   ELSE [c EXCEPT !.found = found, !.pc = "request"]
    /\ UNCHANGED store
    /\ UNCHANGED <<proc, scroll, liker, like_log>>

(* await session.execute(request) and the fetchmany loop. *)
run_request(ok) ==
    /\ call.pc = "request"
    /\ LET c == Sent(call, ok)
           iters == number_iter(call.len_index, call.len_return)
       IN  IF ~ok \/ call.len_return = 0
           THEN call' = Finish(c, <<>>, TRUE)
           ELSE \E ranked \in order_by_desc_count_likes(request_rows(call)) :
                    LET page == fetch_window(ranked, call.len_index, call.len_return)
                        d == [c EXCEPT !.ranked = ranked, !.page = page]
                    IN  \/ /\ fetchmany_refuses(call.len_index, call.len_return)
                           /\ call' = Finish(d, <<>>, TRUE)
                        \/ call' = IF call.op = "liked" /\ iters <= 0
                                   THEN Finish(d, <<>>, TRUE)
                                   ELSE IF call.op = "new_registered" /\ iters > 0 /\ page = <<>>
                                   THEN Finish(d, <<>>, FALSE)
                                   ELSE [d EXCEPT !.pc = "photos"]
    /\ UNCHANGED store
    /\ UNCHANGED <<proc, scroll, liker, like_log>>

(* The photo lookup: get_master_list_photos gives None when its statement  *)
(* fails; the liked view runs the statement itself and reads one row per   *)
(* master that has photos, in the order of the GROUP BY.                   *)
run_photos(ok) ==
    /\ call.pc = "photos"
    /\ LET c == Sent(call, ok)
           list_master_id == Ids(call.page)
           with_photos == {id \in Range(list_master_id) : \E p \in master_photos : p.master_id = id}
       IN  IF call.op = "liked"
           THEN IF ~ok THEN call' = Finish(c, <<>>, TRUE)
                ELSE \E group_order \in Perms(with_photos) :
                         call' = [c EXCEPT !.pc = "styles",
                                           !.photo_path =
                                               [i \in 1..Len(group_order) |->
                                                   {p.photo_path : p \in {x \in master_photos :
                                                       x.master_id = group_order[i]}}]]
           ELSE call' = [c EXCEPT !.pc = "styles", !.photo_ok = ok,
                                  !.photo_path = IF ok THEN get_master_list_photos(list_master_id)
                                                 ELSE <<>>]
    /\ UNCHANGED store
    /\ UNCHANGED <<proc, scroll, liker, like_log>>

(* The style lookup and the loop that creates the dictionaries. *)
run_styles(ok) ==
    /\ call.pc = "styles"
    /\ LET c == Sent(call, ok)
           list_master_id == Ids(call.page)
           no_styles == {id \in Range(list_master_id) : ~\E ms \in master_styles : ms.master_id = id}
       IN  call' =
               IF call.op = "liked"
               THEN IF ~ok \/ no_styles # {} \/ Len(call.photo_path) < Len(call.page)
                    THEN Finish(c, <<>>, TRUE)
                    ELSE Finish(c, liked_dicts(call.page, call.photo_path), FALSE)
               ELSE IF call.page # <<>> /\ (~ok \/ ~call.photo_ok)
                    THEN Finish(c, <<>>, TRUE)
                    ELSE Finish(c, build_dicts(call.page, call.photo_path,
                                               get_master_list_selected_styles(list_master_id)), FALSE)
    /\ UNCHANGED store
    /\ UNCHANGED <<proc, scroll, liker, like_log>>

run_return ==
    /\ call.pc = "done"
    /\ call' = IdleRun
    /\ UNCHANGED store
    /\ UNCHANGED <<proc, scroll, liker, like_log>>

InitSteps ==
    /\ master = {[SeedMaster(i) EXCEPT !.city = "A", !.date_of_reg = SeedNow - 1] : i \in MasterIds}
    /\ client = {SeedClient(ClientId), SeedClient(OtherClientId)}
    /\ master_styles = {[master_id |-> i, style_id |-> NUMBER_ALL_STYLES] : i \in MasterIds}
    /\ client_styles = {[client_id |-> ClientId, style_id |-> NUMBER_ALL_STYLES]}
    /\ likes = {Like(OtherClientId, i, 1) : i \in MasterIds \ {1}} \cup {Like(ClientId, NumMasters, 1)}
    /\ master_photos = {Photo(i) : i \in MasterIds}
    /\ now = SeedNow
    /\ call = IdleRun
    /\ proc = [p \in Procs |-> IdleProc]
    /\ liker = [p \in Procs |-> IdleLiker]
    /\ like_log = {}
    /\ scroll = NoScroll

(* Another coroutine commits a write, to master 1 or to the client:        *)
(* between two statements of the call at most one, and at most MaxWrites   *)
(* while the call runs.                                                    *)
WriteBetween ==
    /\ \/ call.pc = "idle"
       \/ call.pc # "done" /\ store = call.last /\ call.writes < MaxWrites
    /\ \/ \E m \in {1} :
            \/ \E c \in Cities : update_master_city(m, c)
            \/ \E b \in BOOLEAN : update_master_is_blocked(m, b)
            \/ \E ids \in {<<NUMBER_ALL_STYLES>>, <<1>>} : create_master_styles(m, ids)
            \/ create_like(ClientId, m)
            \/ delete_like(ClientId, m)
       \/ \E ids \in {<<NUMBER_ALL_STYLES>>, <<1>>} : create_client_styles(ClientId, ids)

RunBegin ==
    \/ \E f \in Filters : run_begin("with_except", f, ClientId, NumMasters, NumMasters)
    \/ run_begin("liked", "", ClientId, NumMasters, NumMasters)
    \/ run_begin("new_registered", "", ClientId, NumMasters, NumMasters)

RunStep ==
    \E ok \in BOOLEAN : run_client(ok) \/ run_request(ok) \/ run_photos(ok) \/ run_styles(ok)

NextSteps == WriteBetween \/ RunBegin \/ RunStep \/ run_return

SpecSteps == InitSteps /\ [][NextSteps]_vars

(* C22: a tier call with a token other than 'all', 'city' or 'none' gives  *)
(* the empty list, sends no statement to the store and raises nothing.     *)
C22_UnknownToken ==
    (call.op = "with_except" /\ call.filtered \notin {"all", "city", "none"})
    => /\ call.pc = "done"
       /\ call.result = <<>>
       /\ ~call.raised
       /\ call.reads = 0

C22_Witness ==
    /\ call.op = "with_except"
    /\ call.filtered = "best"
    /\ call.pc = "done"
    /\ call.result = <<>>
    /\ TierIds("none", ClientId) # {}

(* C23: when a statement of a ranking call fails (the store cannot be      *)
(* reached), the caller gets the failure value None and not a list, so a   *)
(* failure is told apart from a query with no result.                      *)
C23_FailureSignal ==
    (call.pc = "done" /\ call.failed) => call.raised

(* C24: whatever other coroutines write while a ranking call runs, the     *)
(* value the call returns is the value it would return as a single step on *)
(* the rows as they were at one moment of the call (no statement failing). *)
C24_SnapshotPage ==
    (call.pc = "done" /\ ~call.failed)
    => [result |-> call.result, raised |-> call.raised] \in call.expect

(***************************************************************************)
(* The newly-registered view                                               *)
(***************************************************************************)
(* The non-blocked masters of a city registered after now - WEEK_DAYS. *)
NewInCity(city) ==
    {m.master_id : m \in {x \in master :
        ~x.is_blocked /\ x.city = city /\ x.date_of_reg > now - WEEK_DAYS}}

RegisterIds == {UnknownId, ClientId, 1}

RegisterCheck ==
    \E p \in Procs, id \in RegisterIds : create_client_check(p, id) \/ create_master_check(p, id)

RegisterInsert == \E p \in Procs : create_client_insert(p) \/ create_master_insert(p)

RegisterReturn == \E p \in Procs : create_return(p)

Unregister == \E id \in RegisterIds : delete_client(id) \/ delete_master(id)

NextRegister == RegisterCheck \/ RegisterInsert \/ RegisterReturn \/ Unregister

SpecRegister == InitPage /\ [][NextRegister]_vars

(* C26: no id is stored both in client and in master, and a create_client  *)
(* or create_master call for an id that the other table holds returns      *)
(* False and adds no row.                                                  *)
C26_OneRole ==
    /\ \A c \in client : ~\E m \in master : m.master_id = c.client_id
    /\ \A p \in Procs : (proc[p].pc = "done" /\ proc[p].taken) => proc[p].ret = "False"

(***************************************************************************)
(* SpecReplace: coroutines replace the styles of the client and of master  *)
(* 1, each call in its two transactions, concurrently for one entity too.  *)
(***************************************************************************)
ReplaceDelete ==
    \E p \in Procs, ids \in StyleInputs :
        \/ create_client_styles_delete(p, ClientId, ids)
        \/ \E m \in EditedMasters : create_master_styles_delete(p, m, ids)

ReplaceInsert == \E p \in Procs : create_client_styles_insert(p) \/ create_master_styles_insert(p)

NextReplace == ReplaceDelete \/ ReplaceInsert

SpecReplace == InitPage /\ [][NextReplace]_vars

WellFormedStyles(style_set) ==
    /\ style_set = {NUMBER_ALL_STYLES} \/ NUMBER_ALL_STYLES \notin style_set
    /\ \A style_id \in style_set : NUMBER_ALL_STYLES <= style_id /\ style_id <= MAX_NUMBER_STYLES

(* C27: the stored style set of every client and of every master is       *)
(* either exactly the wildcard or holds no wildcard id, and holds only ids *)
(* from NUMBER_ALL_STYLES to MAX_NUMBER_STYLES (a table row is one pair of *)
(* entity and style id, so a set holds no id twice).                       *)
C27_StyleSets ==
    /\ \A c \in client : WellFormedStyles(StoredStyles(c.client_id))
    /\ \A m \in master : WellFormedStyles(MasterStyleIds(m.master_id))

(* The styles of the entity of coroutine p, and the set its call is to store. *)
StylesOf(p) ==
    IF proc[p].role = "client_styles" THEN StoredStyles(proc[p].id) ELSE MasterStyleIds(proc[p].id)

NewStyles(p) ==
    {x \in validate_style_ids(proc[p].style_ids) : \E st \in Styles : st.style_id = x}

(* C30: while a create_client_styles or create_master_styles call is under *)
(* way and once it has ended, the entity holds the set stored before the   *)
(* call or the validated new set; never are the old styles gone and the    *)
(* new ones absent.                                                        *)
C30_AtomicReplace ==
    \A p \in Procs :
        proc[p].pc = "insert" => StylesOf(p) \in {proc[p].old, NewStyles(p)}

(***************************************************************************)
(* Cards                                                                   *)
(***************************************************************************)
StyleNames(master_id) ==
    {st.style_name : st \in {x \in Styles : x.style_id \in MasterStyleIds(master_id)}}

PhotoPaths(master_id) ==
    {ph.photo_path : ph \in {x \in master_photos : x.master_id = master_id}}

(* C28: every card of every returned page, the liked view included, holds  *)
(* the style names and the photo paths stored for the card's own master.   *)
C28_OwnStylesAndPhotos ==
    call.op # "idle" =>
        \A i \in 1..Len(call.result) :
            /\ call.result[i].styles = StyleNames(call.result[i].master_id)
            /\ call.result[i].photo_path = PhotoPaths(call.result[i].master_id)

====
